---------------------------- MODULE Spec2Model ----------------------------
(***************************************************************************)
(* A model of pycket/prims/input_output.py: the datum reader (tokenizer   *)
(* and recursive-descent parser), the port primitives with the            *)
(* dynamically scoped current ports, and the format engine.               *)
(*                                                                         *)
(* Characters are one-character strings, texts are sequences of           *)
(* characters, and "" is what stream.read(1) / stream.peek() return at    *)
(* the end of the input.                                                   *)
(***************************************************************************)
EXTENDS Integers, Sequences, FiniteSets, TLC

VARIABLES
    translated,  \* TRUE: the RPython-translated build (asserts and index checks dropped)
    alphabet,    \* reader: the characters the input stream is made of
    stream,      \* reader: the characters of the input stream revealed so far
    pos,         \* reader: number of characters consumed from the stream
    atEof,       \* reader: TRUE once the stream is known to hold nothing after `stream`
    pc,          \* reader: the position of the running read() in the code
    sofar,       \* reader: `sofar` of read_number_or_id / `buf` of read_string
    stack,       \* reader: the active read_stream / read_list calls, innermost last
    ret,         \* reader: what read_stream returned or raised
    events,      \* reader: history of the lists and quote forms completed so far
    lastTok,     \* reader: history, the token read_token returned last
    datums,      \* reader: the datums the stream was written from, in order
    reads,       \* reader: history, what the earlier reads on the stream returned
    ports,       \* ports: every port created so far; 1 is stdin_port, 2 is stdout_port
    cont,        \* ports: the continuation of the running callback, innermost frame last
    calls,       \* ports: history of the scoped file operations called so far
    lastCall,    \* ports: history, the last primitive called without a port argument
    running,     \* ports: FALSE once an exception has left the program
    lastOpen,    \* ports: history, the last output file opened with a disposition
    content,     \* peek: the bytes the input port holds
    ppos,        \* peek: the port's position, in bytes
    hist,        \* peek: history, the last two calls made on the port
    fop,         \* format: the primitive called: format, fprintf or printf
    form,        \* format: the template text
    args,        \* format: the values after the template
    fpos,        \* format: `pos` of format, `i` of printf
    vindex,      \* format: `vindex` of format, `j` of printf
    result,      \* format: the text in `result` so far
    out,         \* format: what has been written to the output port / fd 1
    fst,         \* format: whether the call is running, has returned or has raised
    wport,       \* write: the bytes written to the output port, and its flushes
    wcall        \* write: history, the last call of write-bytes

readerVars ==
    <<alphabet, stream, pos, atEof, pc, sofar, stack, ret, events, lastTok, datums, reads>>
portVars == <<ports, cont, calls, lastCall, running, lastOpen>>
peekVars == <<content, ppos, hist>>
fmtVars == <<fop, form, args, fpos, vindex, result, out, fst>>
writeVars == <<wport, wcall>>
vars == <<translated, readerVars, portVars, peekVars, fmtVars, writeVars>>

-----------------------------------------------------------------------------
(* Bounds of the model *)

\* Longest input stream the reader is run on.
MaxLen == 6

\* Most iterations of a loop that reads at the end of the input.
MaxSpin == 2

\* Most datums in a stream that is read datum by datum.
MaxReads == 2

\* Longest text of the short number-or-identifier inputs.
MaxIdLen == 3

\* Deepest nesting of scoped file operations, and the most of them in a run.
MaxDepth == 2
MaxCalls == 3

\* Most characters in the content of the port peeked at, and the largest skip.
MaxChars == 2
MaxSkip == 1

\* Longest byte string written, and the most calls of write-bytes in a run.
MaxBytes == 3
MaxWrites == 2

\* Longest format template and most values passed with it.
MaxTemplate == 5
MaxVals == 2

-----------------------------------------------------------------------------
(* Characters *)

Digits == {"0", "1", "2", "3", "4", "5", "6", "7", "8", "9"}

Letters ==
    {"a", "b", "c", "d", "e", "f", "g", "h", "i", "j", "k", "l", "m",
     "n", "o", "p", "q", "r", "s", "t", "u", "v", "w", "x", "y", "z",
     "A", "B", "C", "D", "E", "F", "G", "H", "I", "J", "K", "L", "M",
     "N", "O", "P", "Q", "R", "S", "T", "U", "V", "W", "X", "Y", "Z"}

\* idchar(c): c.isalnum() or c in ["!", "?", ".", "-", "_", ":"]
idchar(c) ==
    \/ c \in Digits \cup Letters
    \/ c \in {"!", "?", ".", "-", "_", ":"}

DigitVal(c) ==
    CASE c = "0" -> 0 [] c = "1" -> 1 [] c = "2" -> 2 [] c = "3" -> 3
      [] c = "4" -> 4 [] c = "5" -> 5 [] c = "6" -> 6 [] c = "7" -> 7
      [] c = "8" -> 8 [] c = "9" -> 9

-----------------------------------------------------------------------------
(* Values (pycket.values): every datum is a record with a tag t.           *)

w_null == [t |-> "null"]
w_true == [t |-> "bool", v |-> <<"t">>]
w_false == [t |-> "bool", v |-> <<"f">>]
W_Cons(a, d) == [t |-> "cons", car |-> a, cdr |-> d]
W_Symbol(name) == [t |-> "symbol", v |-> name]
W_String(chars) == [t |-> "string", v |-> chars]
\* An integer is its sign and the decimal digits of its magnitude without
\* leading zeros; zero is [neg |-> FALSE, mag |-> <<"0">>].
W_Fixnum(n) == [t |-> "fixnum", v |-> n]
W_Bignum(n) == [t |-> "bignum", v |-> n]
\* A flonum is kept as the float literal it was read from.
W_Flonum(text) == [t |-> "flonum", v |-> text]

quote_symbol == W_Symbol(<<"q", "u", "o", "t", "e">>)
quasiquote_symbol == W_Symbol(<<"q", "u", "a", "s", "i", "q", "u", "o", "t", "e">>)
unquote_symbol == W_Symbol(<<"u", "n", "q", "u", "o", "t", "e">>)
unquote_splicing_symbol ==
    W_Symbol(<<"u", "n", "q", "u", "o", "t", "e", "-",
               "s", "p", "l", "i", "c", "i", "n", "g">>)

-----------------------------------------------------------------------------
(* Number syntax: rpython.rlib.rarithmetic.string_to_int,                  *)
(* rbigint.fromdecimalstr and float(), as read_number_or_id calls them.    *)

\* sys.maxint of the 64-bit host, 2^63 - 1, and the magnitude of -2^63, as
\* decimal digits (TLC's own integers are 32 bits wide).
MaxIntMag ==
    <<"9", "2", "2", "3", "3", "7", "2", "0", "3", "6",
      "8", "5", "4", "7", "7", "5", "8", "0", "7">>
MinIntMag ==
    <<"9", "2", "2", "3", "3", "7", "2", "0", "3", "6",
      "8", "5", "4", "7", "7", "5", "8", "0", "8">>

RECURSIVE StripZeros(_)
StripZeros(d) ==
    IF Len(d) > 1 /\ d[1] = "0" THEN StripZeros(Tail(d)) ELSE d

\* a > b for two magnitudes without leading zeros
RECURSIVE MagGreater(_, _)
MagGreater(a, b) ==
    IF Len(a) # Len(b) THEN Len(a) > Len(b)
    ELSE IF a = <<>> THEN FALSE
    ELSE IF a[1] # b[1] THEN DigitVal(a[1]) > DigitVal(b[1])
    ELSE MagGreater(Tail(a), Tail(b))

IntValue(neg, mag) == [neg |-> neg /\ mag # <<"0">>, mag |-> mag]

HasSign(s) == Len(s) >= 1 /\ s[1] \in {"-", "+"}
IsNegative(s) == Len(s) >= 1 /\ s[1] = "-"
Unsigned(s) == IF HasSign(s) THEN Tail(s) ELSE s

\* ovfcheck(result * base), ovfcheck(result + digit): the result is
\* accumulated with the sign applied, so it overflows past sys.maxint or
\* below -sys.maxint - 1.
Overflows(neg, mag) ==
    MagGreater(mag, IF neg THEN MinIntMag ELSE MaxIntMag)

\* The digit loop of string_to_int over the characters after the sign: each
\* character is checked to be a digit and folded into the result, and the
\* overflow check is made per digit, before the characters after it are
\* looked at.
RECURSIVE IntLoop(_, _, _, _)
IntLoop(s, i, neg, acc) ==
    IF i > Len(s) THEN [st |-> "ok", val |-> IntValue(neg, acc)]
    ELSE IF s[i] \notin Digits THEN [st |-> "ParseStringError", val |-> IntValue(FALSE, <<"0">>)]
    ELSE LET next == StripZeros(Append(acc, s[i]))
         IN  IF Overflows(neg, next)
             THEN [st |-> "ParseStringOverflowError", val |-> IntValue(FALSE, <<"0">>)]
             ELSE IntLoop(s, i + 1, neg, next)

\* string_to_int(got), base 10: an optional sign, then at least one digit.
string_to_int(got) ==
    IF Unsigned(got) = <<>>
    THEN [st |-> "ParseStringError", val |-> IntValue(FALSE, <<"0">>)]
    ELSE IntLoop(Unsigned(got), 1, IsNegative(got), <<"0">>)

AllDigits(s) == s # <<>> /\ \A i \in 1..Len(s) : s[i] \in Digits

\* The value _decimalstr_to_bigint gives on text that is not an optional
\* sign and digits: it folds ord(c) - ord('0') of every character into the
\* result without looking at what the character is, so the result is an
\* integer that is not the value of any numeral spelled by the text.
NotANumeral == [neg |-> FALSE, mag |-> <<"?">>]

\* rbigint.fromdecimalstr(got): never raises.
fromdecimalstr(got) ==
    IF AllDigits(Unsigned(got))
    THEN IntValue(IsNegative(got), StripZeros(Unsigned(got)))
    ELSE NotANumeral

RECURSIVE SkipDigits(_, _)
SkipDigits(s, i) ==
    IF i <= Len(s) /\ s[i] \in Digits THEN SkipDigits(s, i + 1) ELSE i

LowerChar(c) ==
    CASE c = "I" -> "i" [] c = "N" -> "n" [] c = "F" -> "f" [] c = "T" -> "t"
      [] c = "Y" -> "y" [] c = "A" -> "a" [] OTHER -> c
Lower(s) == [i \in 1..Len(s) |-> LowerChar(s[i])]

\* float(got) succeeds: an optional sign, then inf, infinity, nan or a
\* decimal literal, digits with an optional fraction and exponent.
IsFloatSyntax(s) ==
    LET i0 == IF HasSign(s) THEN 2 ELSE 1
        i1 == SkipDigits(s, i0)
        hasInt == i1 > i0
        hasDot == i1 <= Len(s) /\ s[i1] = "."
        i2 == IF hasDot THEN SkipDigits(s, i1 + 1) ELSE i1
        hasFrac == hasDot /\ i2 > i1 + 1
        hasExp == i2 <= Len(s) /\ s[i2] \in {"e", "E"}
        i3 == IF hasExp
              THEN IF i2 + 1 <= Len(s) /\ s[i2 + 1] \in {"-", "+"} THEN i2 + 2 ELSE i2 + 1
              ELSE i2
        i4 == IF hasExp THEN SkipDigits(s, i3) ELSE i2
    IN  \/ Lower(Unsigned(s)) \in {<<"i", "n", "f">>, <<"n", "a", "n">>,
                                   <<"i", "n", "f", "i", "n", "i", "t", "y">>}
        \/ /\ hasInt \/ hasFrac
           /\ hasExp => i4 > i3
           /\ i4 = Len(s) + 1

-----------------------------------------------------------------------------
(* Tokens *)

Token(cls, str, val) == [cls |-> cls, str |-> str, val |-> val]
NumberToken(v) == Token("value", "", v)
SymbolToken(v) == Token("value", "", v)
BooleanToken(v) == Token("value", "", v)
ValueToken(v) == Token("value", "", v)
SpecialToken(s, con) == Token("special", s, con)
LParenToken(s) == Token("lparen", s, w_null)
RParenToken(s) == Token("rparen", s, w_null)
DotToken(s) == Token("dot", s, w_null)

\* A finish that makes the pair (con . val) instead of the list (con val).
finish_dotted(con, val) == W_Cons(con, val)

\* SpecialToken.finish(val)
finish(con, val) == W_Cons(con, W_Cons(val, w_null))

\* The classification at the end of read_number_or_id (lines 69-79).
ClassifyNumberOrId(got) ==
    LET r == string_to_int(got)
    IN  CASE r.st = "ok" -> NumberToken(W_Fixnum(r.val))
          [] r.st = "ParseStringOverflowError" -> NumberToken(W_Bignum(fromdecimalstr(got)))
          [] OTHER ->
                IF IsFloatSyntax(got)
                THEN NumberToken(W_Flonum(got))
                ELSE SymbolToken(W_Symbol(got))

-----------------------------------------------------------------------------
(* The parser: read_stream, read_list, reverse, check_matches              *)

\* A reverse that keeps the order of w_l instead of reversing it.
RECURSIVE reverse_keeps_order(_, _)
reverse_keeps_order(w_l, acc) ==
    IF w_l.t = "cons"
    THEN W_Cons(w_l.car, reverse_keeps_order(w_l.cdr, acc))
    ELSE acc

\* reverse(w_l, acc): conses the elements of w_l onto acc, first element first.
RECURSIVE reverse(_, _)
reverse(w_l, acc) ==
    IF w_l.t = "cons" THEN reverse(w_l.cdr, W_Cons(w_l.car, acc)) ELSE acc

\* check_matches(s1, s2): TRUE when none of its three asserts fails.
check_matches(s1, s2) ==
    /\ s1 = "(" => s2 = ")"
    /\ s1 = "[" => s2 = "]"
    /\ s1 = "{" => s2 = "}"

\* An assert statement stops the read with AssertionError only where asserts
\* are checked; the translated build drops them.
AssertFails(cond) == ~translated /\ ~cond

\* One active call. k is where the call stands:
\*   "stream"  read_stream, about to read its token (line 151)
\*   "finish"  waiting for the datum after the SpecialToken (str, con)
\*             (read_stream line 153, read_list line 194)
\*   "list"    read_list(stream, so_far, end), about to read its token
\*             (line 179) or waiting for a nested list (line 192)
\*   "dot"     read_list waiting for the datum after the dot (line 181)
\*   "close"   read_list about to read the closer after the tail (line 182)
\* elems records the elements in the order they were read, for the history.
Frame(k, str, con, so_far, end, last, elems) ==
    [k |-> k, str |-> str, con |-> con, so_far |-> so_far, end |-> end,
     last |-> last, elems |-> elems]
StreamFrame == Frame("stream", "", w_null, w_null, "", w_null, <<>>)
FinishFrame(tok) == Frame("finish", tok.str, tok.val, w_null, "", w_null, <<>>)
ListFrame(end) == Frame("list", "", w_null, w_null, end, w_null, <<>>)

Running == [st |-> "running", val |-> w_null, exc |-> "", msg |-> ""]
Returned(v) == [st |-> "value", val |-> v, exc |-> "", msg |-> ""]
Raised(exc, msg) == [st |-> "error", val |-> w_null, exc |-> exc, msg |-> msg]

\* History: a list completed by its closer, and a quote form completed.
ListEvent(f, close, dotted, val) ==
    [k |-> "list", open |-> f.end, close |-> close, elems |-> f.elems,
     dotted |-> dotted, tail |-> f.last, val |-> val]
FinishEvent(f, arg, val) ==
    [k |-> "finish", open |-> f.str, close |-> "", elems |-> <<arg>>,
     dotted |-> FALSE, tail |-> w_null, val |-> val]

Outcome(stk, p, r, ev) == [stack |-> stk, pc |-> p, ret |-> r, events |-> ev]
Fail(exc, msg, ev) == Outcome(<<>>, "done", Raised(exc, msg), ev)

Top(stk) == stk[Len(stk)]
Pop(stk) == SubSeq(stk, 1, Len(stk) - 1)

\* The innermost call returns v to the calls in stk.
RECURSIVE ReturnValue(_, _, _)
ReturnValue(stk, v, ev) ==
    IF stk = <<>> THEN Outcome(<<>>, "done", Returned(v), ev)
    ELSE LET f == Top(stk) IN
         CASE f.k = "finish" ->
                \* return next_token.finish(v) / v = next_token.finish(arg)
                LET w == finish(f.con, v)
                IN  ReturnValue(Pop(stk), w, Append(ev, FinishEvent(f, v, w)))
           [] f.k = "list" ->
                \* return read_list(stream, W_Cons.make(v, so_far), end)
                Outcome(Append(Pop(stk), [f EXCEPT !.so_far = W_Cons(v, f.so_far),
                                                   !.elems = Append(f.elems, v)]),
                        "token", Running, ev)
           [] f.k = "dot" ->
                \* last = read_stream(stream); close = read_token(stream)
                Outcome(Append(Pop(stk), [f EXCEPT !.k = "close", !.last = v]),
                        "token", Running, ev)

\* read_list closes: check_matches(end, close.str), then the reversed list.
CloseList(stk, f, tok, dotted, ev) ==
    IF AssertFails(check_matches(f.end, tok.str))
    THEN Fail("AssertionError", "", ev)
    ELSE LET v == reverse(f.so_far, IF dotted THEN f.last ELSE w_null)
         IN  ReturnValue(Pop(stk), v, Append(ev, ListEvent(f, tok.str, dotted, v)))

\* What the innermost call does with the token read_token returned to it.
Parse(stk, tok, ev) ==
    LET f == Top(stk) IN
    CASE f.k = "stream" ->
           CASE tok.cls = "special" ->
                  Outcome(Append(Append(Pop(stk), FinishFrame(tok)), StreamFrame),
                          "token", Running, ev)
             [] tok.cls \in {"rparen", "dot"} ->
                  Fail("SchemeException", "read: unexpected " \o tok.str, ev)
             [] tok.cls = "lparen" ->
                  Outcome(Append(Pop(stk), ListFrame(tok.str)), "token", Running, ev)
             [] OTHER -> ReturnValue(Pop(stk), tok.val, ev)
      [] f.k = "list" ->
           CASE tok.cls = "dot" ->
                  Outcome(Append(Append(Pop(stk), [f EXCEPT !.k = "dot"]), StreamFrame),
                          "token", Running, ev)
             [] tok.cls = "rparen" -> CloseList(stk, f, tok, FALSE, ev)
             [] tok.cls = "lparen" ->
                  Outcome(Append(stk, ListFrame(tok.str)), "token", Running, ev)
             [] tok.cls = "special" ->
                  Outcome(Append(Append(stk, FinishFrame(tok)), StreamFrame),
                          "token", Running, ev)
             [] OTHER -> ReturnValue(stk, tok.val, ev)
      [] f.k = "close" ->
           IF tok.cls = "rparen"
           THEN CloseList(stk, f, tok, TRUE, ev)
           ELSE Fail("SchemeException", "read: illegal use of dot", ev)

-----------------------------------------------------------------------------
(* The input stream: W_InputPort.read(1) and W_InputPort.peek().  The      *)
(* stream's content is revealed one character at a time, as the reader     *)
(* first looks at it; a character once revealed stays.                     *)

\* The backquote character, which a TLA+ string cannot hold.
Backquote == "backquote"

\* The characters the input streams are made of: streams of lists, streams
\* of quote forms, and streams of text with comments and string literals.
ListChars == {"(", ")", "[", "]", "{", "}", "#", ".", " ", "a"}
QuoteChars == {"'", Backquote, ",", "@", "(", ")", ".", " ", "a"}
TextChars == {";", "\n", "\"", "\\", "n", "a", "(", ")"}

\* What the next read(1) or peek() can return: the next character, or ""
\* at the end of the input.
Avail ==
    IF pos < Len(stream) THEN {stream[pos + 1]}
    ELSE IF atEof \/ Len(stream) >= MaxLen THEN {""}
    ELSE alphabet \cup {""}

Reveal(c) ==
    IF pos < Len(stream) THEN UNCHANGED <<stream, atEof>>
    ELSE IF c = "" THEN stream' = stream /\ atEof' = TRUE
    ELSE stream' = Append(stream, c) /\ atEof' = atEof

\* c = stream.read(1)
StreamRead(c) ==
    /\ c \in Avail
    /\ Reveal(c)
    /\ pos' = IF c = "" THEN pos ELSE pos + 1

\* c = stream.peek()
StreamPeek(c) ==
    /\ c \in Avail
    /\ Reveal(c)
    /\ pos' = pos

-----------------------------------------------------------------------------
(* The tokenizer: read_token, read_number_or_id, read_string, one stream   *)
(* access per step.  A step that completes a token hands it to the parser. *)

\* History: the token, the text it was made from and the stream position
\* read_token left behind.
TokenRead(tok, text, stop) ==
    [cls |-> tok.cls, str |-> tok.str, val |-> tok.val, text |-> text, stop |-> stop]
NoToken == TokenRead(Token("none", "", w_null), <<>>, 0)

\* read_token returns tok, made from text, to the innermost read_stream /
\* read_list call.
Deliver(tok, text) ==
    LET o == Parse(stack, tok, events)
    IN  /\ stack' = o.stack
        /\ pc' = o.pc
        /\ ret' = o.ret
        /\ events' = o.events
        /\ sofar' = <<>>
        /\ lastTok' = TokenRead(tok, text, pos')

\* raise exc(msg) out of read
Raise(exc, msg) ==
    /\ stack' = <<>>
    /\ pc' = "done"
    /\ ret' = Raised(exc, msg)
    /\ sofar' = <<>>
    /\ UNCHANGED <<events, lastTok>>

Goto(p, buf) ==
    /\ pc' = p
    /\ sofar' = buf
    /\ UNCHANGED <<stack, ret, events, lastTok>>

\* read_token, lines 102-140: c = f.read(1) and the dispatch on c.
ReadToken ==
    /\ pc = "token"
    /\ \E c \in Avail :
         /\ StreamRead(c)
         /\ CASE c = ";" -> Goto("comment", <<>>)
              [] c \in {" ", "\n", "\t"} -> Goto("token", <<>>)
              [] c \in {"(", "[", "{"} -> Deliver(LParenToken(c), <<c>>)
              [] c \in {")", "]", "}"} -> Deliver(RParenToken(c), <<c>>)
              [] c = "\"" -> Goto("string", <<>>)
              [] c = "." -> Deliver(DotToken(c), <<c>>)
              [] c = "'" -> Deliver(SpecialToken(c, quote_symbol), <<c>>)
              [] c = Backquote -> Deliver(SpecialToken(c, quasiquote_symbol), <<c>>)
              [] c = "," -> Goto("comma", <<>>)
              [] c # "" /\ idchar(c) -> Goto("id", <<c>>)
              [] c = "#" -> Goto("hash", <<>>)
              [] OTHER -> Raise("SchemeException", "bad token in read: " \o c)
    /\ UNCHANGED <<translated, alphabet, datums, reads, portVars, peekVars, fmtVars, writeVars>>

\* f.readline() after ";" (line 105): consumes through the end of the line.
ReadComment ==
    /\ pc = "comment"
    /\ \E c \in Avail :
         /\ StreamRead(c)
         /\ Goto(IF c \in {"\n", ""} THEN "token" ELSE "comment", <<>>)
    /\ UNCHANGED <<translated, alphabet, datums, reads, portVars, peekVars, fmtVars, writeVars>>

\* read_token after ",", lines 123-128: p = f.peek(), read only when "@".
ReadComma ==
    /\ pc = "comma"
    /\ \E p \in Avail :
         IF p = "@"
         THEN StreamRead(p) /\ Deliver(SpecialToken("," \o p, unquote_splicing_symbol), <<",", p>>)
         ELSE StreamPeek(p) /\ Deliver(SpecialToken(",", unquote_symbol), <<",">>)
    /\ UNCHANGED <<translated, alphabet, datums, reads, portVars, peekVars, fmtVars, writeVars>>

\* A scan that reads the character that ends the run instead of peeking at it.
ReadNumberOrId_consuming ==
    /\ pc = "id"
    /\ \E c \in Avail :
         IF c # "" /\ idchar(c)
         THEN StreamRead(c) /\ Goto("id", Append(sofar, c))
         ELSE StreamRead(c) /\ Deliver(ClassifyNumberOrId(sofar), sofar)
    /\ UNCHANGED <<translated, alphabet, datums, reads, portVars, peekVars, fmtVars, writeVars>>

\* read_number_or_id, lines 59-79: peek, consume while idchar, then classify.
ReadNumberOrId ==
    /\ pc = "id"
    /\ \E c \in Avail :
         IF c # "" /\ idchar(c)
         THEN StreamRead(c) /\ Goto("id", Append(sofar, c))
         ELSE StreamPeek(c) /\ Deliver(ClassifyNumberOrId(sofar), sofar)
    /\ UNCHANGED <<translated, alphabet, datums, reads, portVars, peekVars, fmtVars, writeVars>>

\* read_token after "#", lines 132-139.
ReadHash ==
    /\ pc = "hash"
    /\ \E c2 \in Avail :
         /\ StreamRead(c2)
         /\ CASE c2 = "t" -> Deliver(BooleanToken(w_true), <<"#", c2>>)
              [] c2 = "f" -> Deliver(BooleanToken(w_false), <<"#", c2>>)
              [] c2 \in {"(", "[", "{"} -> Deliver(LParenToken("#" \o c2), <<"#", c2>>)
              [] OTHER -> Raise("SchemeException", "bad token in read: " \o c2)
    /\ UNCHANGED <<translated, alphabet, datums, reads, portVars, peekVars, fmtVars, writeVars>>

NonEmpty(c) == c # ""

\* "".join(buf)
Join(buf) == SelectSeq(buf, NonEmpty)

\* read_string, lines 85-99: c = f.read(1), and buf.append(c) for every c
\* that is neither the closing quote nor a backslash, the "" read at the
\* end of the input included.
ReadString ==
    /\ pc = "string"
    /\ Len(sofar) - Len(Join(sofar)) < MaxSpin
    /\ \E c \in Avail :
         /\ StreamRead(c)
         /\ CASE c = "\"" -> Deliver(ValueToken(W_String(Join(sofar))), Join(sofar))
              [] c = "\\" -> Goto("escape", sofar)
              [] OTHER -> Goto("string", Append(sofar, c))
    /\ UNCHANGED <<translated, alphabet, datums, reads, portVars, peekVars, fmtVars, writeVars>>

\* read_string after a backslash, lines 90-99: n = f.read(1).
ReadEscape ==
    /\ pc = "escape"
    /\ \E n \in Avail :
         /\ StreamRead(n)
         /\ CASE n \in {"\"", "\\"} -> Goto("string", Append(sofar, n))
              [] n = "n" -> Goto("string", Append(sofar, "\n"))
              [] n = "t" -> Goto("string", Append(sofar, "\t"))
              [] OTHER ->
                   Raise("SchemeException",
                         "read: bad escape character in string: " \o n)
    /\ UNCHANGED <<translated, alphabet, datums, reads, portVars, peekVars, fmtVars, writeVars>>

-----------------------------------------------------------------------------
(* The state at load time of the parts a run does not use.                 *)

\* No read is running.
ReaderIdle ==
    /\ datums = <<>>
    /\ reads = <<>>
    /\ alphabet = {}
    /\ stream = <<>>
    /\ pos = 0
    /\ atEof = TRUE
    /\ pc = "done"
    /\ sofar = <<>>
    /\ stack = <<>>
    /\ ret = Running
    /\ events = <<>>
    /\ lastTok = NoToken

Port(kind, mode) == [kind |-> kind, mode |-> mode, closed |-> FALSE, closes |-> 0]
stdin_port == 1
stdout_port == 2
NoCall == [op |-> "none", used |-> 0, cur_in |-> 0, cur_out |-> 0]

\* Lines 735-739: the standard ports exist, nothing has been called.
\* History: an output file was asked for with the mode and disposition
\* symbols mode and exists; port is the port opened, 0 when none was.
OpenRequest(op, mode, exists, port, exc, msg) ==
    [op |-> op, mode |-> mode, exists |-> exists, port |-> port, exc |-> exc, msg |-> msg]
NoOpen == OpenRequest("none", "", "", 0, "", "")

PortsAtLoad ==
    /\ lastOpen = NoOpen
    /\ ports = <<Port("in", "rb"), Port("out", "wb")>>
    /\ cont = <<>>
    /\ calls = <<>>
    /\ lastCall = NoCall
    /\ running = TRUE

\* No port is being peeked at.
PeekIdle ==
    /\ content = <<>>
    /\ ppos = 0
    /\ hist = <<>>

FormatRunning == [st |-> "running", exc |-> "", msg |-> ""]

\* Nothing has been written.
WriteIdle ==
    /\ wport = [bytes |-> <<>>, flushes |-> 0]
    /\ wcall = [op |-> "none", n |-> 0, bstr |-> <<>>, start |-> 0, stop |-> 0,
                wrote |-> <<>>, flushed |-> FALSE, ret |-> 0, exc |-> ""]

\* No format call is running.
FormatIdle ==
    /\ fop = "none"
    /\ form = <<>>
    /\ args = <<>>
    /\ fpos = 0
    /\ vindex = 0
    /\ result = <<>>
    /\ out = <<>>
    /\ fst = FormatRunning

-----------------------------------------------------------------------------
(* read(port): one call of read_stream on a fresh stream.                  *)

Init ==
    /\ PortsAtLoad
    /\ PeekIdle
    /\ FormatIdle
    /\ WriteIdle
    /\ translated \in BOOLEAN
    /\ datums = <<>>
    /\ reads = <<>>
    /\ alphabet \in {ListChars, QuoteChars, TextChars}
    /\ stream = <<>>
    /\ pos = 0
    /\ atEof = FALSE
    /\ pc = "token"
    /\ sofar = <<>>
    /\ stack = <<StreamFrame>>
    /\ ret = Running
    /\ events = <<>>
    /\ lastTok = NoToken

Next ==
    \/ ReadToken
    \/ ReadComment
    \/ ReadComma
    \/ ReadNumberOrId
    \/ ReadHash
    \/ ReadString
    \/ ReadEscape

Spec == Init /\ [][Next]_vars

-----------------------------------------------------------------------------
(* Properties of the reader                                                *)

Closer(c) == CASE c = "(" -> ")" [] c = "[" -> "]" [] c = "{" -> "}"
BracketOf(open) == CASE open = "#(" -> "(" [] open = "#[" -> "[" [] open = "#{" -> "{"

ListEventsOpenedBy(openers) ==
    {i \in 1..Len(events) : events[i].k = "list" /\ events[i].open \in openers}

\* The list e1 ... en . tail, built front to back.
RECURSIVE ListOf(_, _)
ListOf(elems, tail) ==
    IF elems = <<>> THEN tail
    ELSE W_Cons(Head(elems), ListOf(Tail(elems), tail))

\* C3: a read that returns a datum has closed every list opened by a plain
\* "(", "[" or "{" with the closer of the same kind; a mismatched closer
\* makes the read fail.
C3_MismatchedCloserRejected ==
    ret.st = "value" =>
        \A i \in ListEventsOpenedBy({"(", "[", "{"}) :
            events[i].close = Closer(events[i].open)

\* C4: the same for a list opened by "#(", "#[" or "#{", stated for the
\* build that checks its asserts, where "(1 2]" is rejected: a read that
\* returns a datum has closed every such list with the closer of the kind
\* of the bracket after "#".
C4_VectorCloserMatches ==
    (ret.st = "value" /\ ~translated) =>
        \A i \in ListEventsOpenedBy({"#(", "#[", "#{"}) :
            events[i].close = Closer(BracketOf(events[i].open))

\* C6: every list read_list completes is the chain of pairs holding the
\* elements read for it in input order, ended by the empty list, or by the
\* datum after the dot; and read returns the outermost form completed.
C6_ListInInputOrder ==
    /\ \A i \in 1..Len(events) :
          events[i].k = "list" =>
              events[i].val =
                  ListOf(events[i].elems,
                         IF events[i].dotted THEN events[i].tail ELSE w_null)
    /\ (ret.st = "value" /\ events # <<>>) => ret.val = events[Len(events)].val

\* C6 witness: read returned a list of an element and, after the dot, a tail
\* different from it, closed by the matching closer.
C6_Witness ==
    /\ ret.st = "value"
    /\ \E i \in 1..Len(events) :
          /\ events[i].k = "list"
          /\ events[i].open \in {"(", "[", "{"}
          /\ events[i].close = Closer(events[i].open)
          /\ events[i].dotted
          /\ Len(events[i].elems) >= 1
          /\ events[i].elems[1] # events[i].tail
          /\ ret.val = events[i].val

\* The position of read in the code, ranked by how far it is from its end
\* once the input is exhausted.
Rank(p) == CASE p = "done" -> 0 [] p = "token" -> 1 [] OTHER -> 2

\* C12: read terminates on every finite input: every step of a running
\* read consumes a character, or finds the end of the input, or moves read
\* closer to its end, so that no step can be repeated for ever.
C12_ReadTerminates ==
    [][pc # "done" => \/ pos' > pos
                      \/ ~atEof /\ atEof'
                      \/ Rank(pc') < Rank(pc)]_vars

MarkerSymbol(m) ==
    CASE m = "'" -> quote_symbol
      [] m = Backquote -> quasiquote_symbol
      [] m = "," -> unquote_symbol
      [] m = ",@" -> unquote_splicing_symbol

\* C7: every quote form completed is the proper list (sym d) of the
\* marker's symbol and the datum read after it; the marker token is "," with
\* symbol unquote exactly when the character after the comma is not "@", and
\* that character is left in the stream.
C7_QuoteForms ==
    /\ \A i \in 1..Len(events) :
          events[i].k = "finish" =>
              events[i].val =
                  ListOf(<<MarkerSymbol(events[i].open), events[i].elems[1]>>, w_null)
    /\ lastTok.cls = "special" =>
          /\ lastTok.val = MarkerSymbol(lastTok.str)
          /\ lastTok.stop >= Len(lastTok.text)
          /\ SubSeq(stream, lastTok.stop - Len(lastTok.text) + 1, lastTok.stop) = lastTok.text
          /\ lastTok.text[1] = "," =>
                /\ lastTok.str = ",@" <=> lastTok.text = <<",", "@">>
                /\ lastTok.str = "," <=> lastTok.text = <<",">>
                /\ lastTok.str = "," =>
                      (Len(stream) > lastTok.stop => stream[lastTok.stop + 1] # "@")

\* C7 witness: the stream `(,a) was read as (quasiquote ((unquote a))).
C7_Witness ==
    /\ ret.st = "value"
    /\ ret.val =
          ListOf(<<quasiquote_symbol,
                   ListOf(<<ListOf(<<unquote_symbol, W_Symbol(<<"a">>)>>, w_null)>>,
                          w_null)>>,
                 w_null)

-----------------------------------------------------------------------------
(* read_number_or_id on chosen texts: a stream that holds one run of       *)
(* identifier characters, short ones and ones around the fixnum bound.     *)

NumChars == {"0", "1", "9", "-", ".", "e", "a"}

ShortTexts == UNION {[1..n -> NumChars] : n \in 1..MaxIdLen}

\* sign, the first 18 digits of sys.maxint, one more digit, and a suffix
BoundaryTexts ==
    {sign \o SubSeq(MaxIntMag, 1, 18) \o <<d>> \o suffix :
        sign \in {<<>>, <<"-">>},
        d \in {"6", "7", "8", "9"},
        suffix \in {<<>>, <<"0">>, <<"a">>, <<".", "5">>}}

InitNum ==
    /\ PortsAtLoad
    /\ PeekIdle
    /\ FormatIdle
    /\ WriteIdle
    /\ translated \in BOOLEAN
    /\ datums = <<>>
    /\ reads = <<>>
    /\ alphabet = {}
    /\ stream \in ShortTexts \cup BoundaryTexts
    /\ pos = 0
    /\ atEof = TRUE
    /\ pc = "token"
    /\ sofar = <<>>
    /\ stack = <<StreamFrame>>
    /\ ret = Running
    /\ events = <<>>
    /\ lastTok = NoToken

NextNum ==
    \/ ReadToken
    \/ ReadNumberOrId

SpecNum == InitNum /\ [][NextNum]_vars

IsIntegerSyntax(s) == AllDigits(Unsigned(s))
NumeralValue(s) == IntValue(IsNegative(s), StripZeros(Unsigned(s)))
FitsFixnum(s) ==
    ~MagGreater(StripZeros(Unsigned(s)), IF IsNegative(s) THEN MinIntMag ELSE MaxIntMag)

\* C5: the token read_number_or_id makes from the text got is the fixnum
\* of the numeral when got is integer syntax within the fixed-width range,
\* the bignum of the numeral when got is integer syntax outside it, a flonum
\* when got is float syntax only, and otherwise the symbol named got.
C5_FourWayClassification ==
    (lastTok.cls = "value" /\ lastTok.val.t \in {"fixnum", "bignum", "flonum", "symbol"}) =>
        LET got == lastTok.text
        IN  lastTok.val =
                IF IsIntegerSyntax(got)
                THEN IF FitsFixnum(got)
                     THEN W_Fixnum(NumeralValue(got))
                     ELSE W_Bignum(NumeralValue(got))
                ELSE IF IsFloatSyntax(got)
                     THEN W_Flonum(got)
                     ELSE W_Symbol(got)

-----------------------------------------------------------------------------
(* Ports, the current-port parameters and the scoped file operations       *)

ModeSyms == {"text", "binary"}
ExistsSyms == {"error", "append", "update", "replace", "truncate", "truncate/replace"}

\* close_cont(port, env, cont), and the parameterization that
\* call_with_extended_paramz puts around the callback.  call is the index of
\* the operation in the history.
CloseCont(port, call) == [k |-> "close_cont", port |-> port, param |-> "", call |-> call]
Paramz(param, port) == [k |-> "paramz", port |-> port, param |-> param, call |-> 0]

\* The values the parameters are created with (lines 737-739).
ParamDefault(param) ==
    CASE param = "current_out_param" -> stdout_port
      [] param = "current_error_param" -> stdout_port
      [] param = "current_in_param" -> stdin_port

\* param.get(cont): the innermost binding in the continuation, else the
\* value the parameter was created with.
RECURSIVE ParamGet(_, _)
ParamGet(param, k) ==
    IF k = <<>> THEN ParamDefault(param)
    ELSE IF Top(k).k = "paramz" /\ Top(k).param = param THEN Top(k).port
    ELSE ParamGet(param, Pop(k))

\* port.close()
PortClose(ps, p) == [ps EXCEPT ![p].closed = TRUE, ![p].closes = @ + 1]

Depth == Cardinality({i \in 1..Len(cont) : cont[i].k = "close_cont"})
CanCall == running /\ Depth < MaxDepth /\ Len(calls) < MaxCalls

\* open_infile / open_outfile, then proc.call([port], env, close_cont(...)),
\* with the parameter param, if any, rebound to the port around the callback.
OpenAndCall(op, kind, m, param) ==
    LET port == Len(ports) + 1
        call == Len(calls) + 1
    IN  /\ ports' = Append(ports, Port(kind, m))
        /\ cont' = Append(cont, CloseCont(port, call))
                       \o (IF param = "" THEN <<>> ELSE <<Paramz(param, port)>>)
        /\ calls' = Append(calls, [op |-> op, port |-> port, st |-> "active"])
        /\ UNCHANGED <<lastCall, running>>

\* An exception leaves the primitive: nothing catches it, so the whole
\* continuation is dropped without being invoked.
Abandon(cs) ==
    /\ running' = FALSE
    /\ cont' = <<>>
    /\ calls' = [i \in 1..Len(cs) |->
                    IF cs[i].st = "active" THEN [cs[i] EXCEPT !.st = "raised"] ELSE cs[i]]
    /\ UNCHANGED <<ports, lastCall>>

\* call-with-input-file, lines 352-355
call_with_input_file ==
    /\ CanCall
    /\ \E mode \in ModeSyms :
         OpenAndCall("call-with-input-file", "in",
                     IF mode = "text" THEN "r" ELSE "rb", "")
    /\ UNCHANGED <<lastOpen, translated, readerVars, peekVars, fmtVars, writeVars>>

\* call-with-output-file, lines 370-381
call_with_output_file ==
    /\ CanCall
    /\ \E mode \in ModeSyms, exists \in ExistsSyms :
         LET m == CASE exists = "append" -> "a"
                    [] exists = "truncate" -> "w"
                    [] OTHER -> ""
         IN  IF m = ""
             THEN \* raise SchemeException("modes not yet supported: %s" % exists)
                  /\ Abandon(Append(calls, [op |-> "call-with-output-file", port |-> 0,
                                            st |-> "active"]))
                  /\ lastOpen' = OpenRequest("call-with-output-file", mode, exists, 0,
                                             "SchemeException",
                                             "modes not yet supported: " \o exists)
             ELSE /\ OpenAndCall("call-with-output-file", "out",
                                 IF mode # "text" THEN m \o "b" ELSE m, "")
                  /\ lastOpen' = OpenRequest("call-with-output-file", mode, exists,
                                             Len(ports) + 1, "", "")
    /\ UNCHANGED <<translated, readerVars, peekVars, fmtVars, writeVars>>

\* open-output-file, lines 312-314: the port is opened for writing whatever
\* exists is, and is returned to the caller.
open_output_file ==
    /\ running
    /\ Len(ports) < 2 + MaxCalls
    /\ \E mode \in ModeSyms, exists \in ExistsSyms :
         /\ ports' = Append(ports, Port("out", IF mode = "text" THEN "w" ELSE "wb"))
         /\ lastOpen' = OpenRequest("open-output-file", mode, exists, Len(ports) + 1, "", "")
    /\ UNCHANGED <<cont, calls, lastCall, running, translated, readerVars, peekVars, fmtVars, writeVars>>

\* with-input-from-file, lines 386-391
with_input_from_file ==
    /\ CanCall
    /\ \E mode \in ModeSyms :
         OpenAndCall("with-input-from-file", "in",
                     IF mode = "binary" THEN "rb" ELSE "r", "current_in_param")
    /\ UNCHANGED <<lastOpen, translated, readerVars, peekVars, fmtVars, writeVars>>

\* with-output-to-file, lines 395-399
with_output_to_file ==
    /\ CanCall
    /\ OpenAndCall("with-output-to-file", "out", "wb", "current_out_param")
    /\ UNCHANGED <<lastOpen, translated, readerVars, peekVars, fmtVars, writeVars>>

\* The innermost callback returns: its continuation is invoked, which drops
\* the callback's parameterization and runs close_cont (lines 335-338):
\* port.close(), then the values go on to the caller's continuation.
ProcReturns ==
    /\ running
    /\ cont # <<>>
    /\ LET k == IF Top(cont).k = "paramz" THEN Pop(cont) ELSE cont
           f == Top(k)
       IN  /\ ports' = PortClose(ports, f.port)
           /\ cont' = Pop(k)
           /\ calls' = [calls EXCEPT ![f.call].st = "returned"]
    /\ UNCHANGED <<lastCall, running, lastOpen, translated, readerVars, peekVars, fmtVars, writeVars>>

\* The innermost callback raises a SchemeException.
ProcRaises ==
    /\ running
    /\ cont # <<>>
    /\ Abandon(calls)
    /\ UNCHANGED <<lastOpen, translated, readerVars, peekVars, fmtVars, writeVars>>

\* A primitive called without a port argument takes the port from param.
UseDefaultPort(op, param) ==
    /\ lastCall' = [op |-> op, used |-> ParamGet(param, cont),
                    cur_in |-> ParamGet("current_in_param", cont),
                    cur_out |-> ParamGet("current_out_param", cont)]
    /\ UNCHANGED <<ports, cont, calls, running, lastOpen, translated, readerVars,
                   peekVars, fmtVars, writeVars>>

\* read, lines 143-148, with port None
read ==
    /\ running
    /\ UseDefaultPort("read", "current_out_param")

\* do_read_line, lines 209-215, with port None
do_read_line ==
    /\ running
    /\ UseDefaultPort("read-line", "current_in_param")

\* do_read_one, lines 241-245, with w_port None
do_read_one ==
    /\ running
    /\ UseDefaultPort("read-char", "current_in_param")

\* read_bytes_avail_bang, lines 622-630, with w_port None
read_bytes_avail_bang ==
    /\ running
    /\ UseDefaultPort("read-bytes-avail!", "current_in_param")

\* do_print, lines 449-452, with port None
do_print ==
    /\ running
    /\ UseDefaultPort("display", "current_out_param")

InitPorts ==
    /\ PortsAtLoad
    /\ ReaderIdle
    /\ PeekIdle
    /\ FormatIdle
    /\ WriteIdle
    /\ translated \in BOOLEAN

NextPorts ==
    \/ call_with_input_file
    \/ call_with_output_file
    \/ with_input_from_file
    \/ with_output_to_file
    \/ ProcReturns
    \/ ProcRaises
    \/ read
    \/ do_read_line
    \/ do_read_one
    \/ read_bytes_avail_bang
    \/ do_print

SpecPorts == InitPorts /\ [][NextPorts]_vars

\* C1: once a scoped file operation has completed, by its callback
\* returning or by an error leaving it, the port it opened has been closed
\* exactly once.
C1_PortClosedExactlyOnce ==
    \A i \in 1..Len(calls) :
        (calls[i].st # "active" /\ calls[i].port # 0) =>
            /\ ports[calls[i].port].closed
            /\ ports[calls[i].port].closes = 1

\* C2: read called without a port reads from the current value of
\* current-input-port.
C2_ReadUsesCurrentInput ==
    lastCall.op = "read" => lastCall.used = lastCall.cur_in

\* The operations that open an output file with a disposition, and the
\* callbacks of call-with-output-file returning or raising.
InitOpen == InitPorts

NextOpen ==
    \/ call_with_output_file
    \/ open_output_file
    \/ ProcReturns
    \/ ProcRaises

SpecOpen == InitOpen /\ [][NextOpen]_vars

\* C11: an output file asked for with disposition append is opened in
\* append mode, with truncate in truncating write mode, and with any other
\* disposition the operation raises "modes not yet supported: <symbol>"
\* and opens no port.
C11_ExistsDisposition ==
    lastOpen.op # "none" =>
        CASE lastOpen.exists = "append" ->
                 /\ lastOpen.exc = ""
                 /\ ports[lastOpen.port].mode \in {"a", "ab"}
          [] lastOpen.exists = "truncate" ->
                 /\ lastOpen.exc = ""
                 /\ ports[lastOpen.port].mode \in {"w", "wb"}
          [] OTHER ->
                 /\ lastOpen.exc = "SchemeException"
                 /\ lastOpen.msg = "modes not yet supported: " \o lastOpen.exists
                 /\ lastOpen.port = 0

-----------------------------------------------------------------------------
(* read-char, read-byte, peek-char, peek-byte on one input port            *)

\* runicode.utf8_code_length[i], which do_read_one indexes by the lead byte
utf8_code_length(i) ==
    CASE i <= 127 -> 1
      [] i >= 194 /\ i <= 223 -> 2
      [] i >= 224 /\ i <= 239 -> 3
      [] i >= 240 /\ i <= 244 -> 4
      [] OTHER -> 0

IsContinuation(b) == b >= 128 /\ b <= 191

CodePoint(b) ==
    CASE Len(b) = 1 -> b[1]
      [] Len(b) = 2 -> (b[1] - 192) * 64 + (b[2] - 128)
      [] Len(b) = 3 -> (b[1] - 224) * 4096 + (b[2] - 128) * 64 + (b[3] - 128)
      [] Len(b) = 4 -> (b[1] - 240) * 262144 + (b[2] - 128) * 4096
                           + (b[3] - 128) * 64 + (b[4] - 128)

\* c.decode("utf-8"): the code points of the byte string, or ok = FALSE
\* where it raises UnicodeDecodeError.
RECURSIVE DecodeUtf8(_)
DecodeUtf8(b) ==
    IF b = <<>> THEN [ok |-> TRUE, chars |-> <<>>]
    ELSE LET n == utf8_code_length(b[1])
         IN  IF \/ n = 0
                \/ Len(b) < n
                \/ \E j \in 2..n : ~IsContinuation(b[j])
             THEN [ok |-> FALSE, chars |-> <<>>]
             ELSE LET rest == DecodeUtf8(SubSeq(b, n + 1, Len(b)))
                  IN  [ok |-> rest.ok,
                       chars |-> <<CodePoint(SubSeq(b, 1, n))>> \o rest.chars]

\* w_port.read(n) at position at: up to n bytes, everything left for n < 0.
PortRead(bytes, at, n) ==
    IF n < 0 THEN SubSeq(bytes, at + 1, Len(bytes))
    ELSE SubSeq(bytes, at + 1, IF at + n < Len(bytes) THEN at + n ELSE Len(bytes))

\* w_port.peek() at position at: the next byte, "" at the end.
PortPeek(bytes, at) == PortRead(bytes, at, 1)

eof_object == [t |-> "eof", v |-> 0]
ByteValue(i) == [t |-> "fixnum", v |-> i]
W_Character(cp) == [t |-> "char", v |-> cp]

ReadOneResult(res, at, exc) == [res |-> res, at |-> at, exc |-> exc]

\* c += w_port.read(needed - 1), line 260
ReadAfterLead(bytes, at, needed) == PortRead(bytes, at, needed - 1)

\* do_read_one(w_port, as_bytes, peek), lines 246-263, on a port holding
\* bytes and standing at position at: what it returns or raises, and where
\* it leaves the port.
ReadOne(bytes, at, as_bytes, peek) ==
    LET c == PortPeek(bytes, at)
        at1 == IF peek THEN at ELSE at + Len(c)
    IN  IF Len(c) = 0 THEN ReadOneResult(eof_object, at1, "")
        ELSE IF as_bytes THEN ReadOneResult(ByteValue(c[1]), at1, "")
        ELSE LET more == ReadAfterLead(bytes, at1, utf8_code_length(c[1]))
                 at2 == at1 + Len(more)
                 d == DecodeUtf8(c \o more)
             IN  IF ~d.ok THEN ReadOneResult(eof_object, at2, "UnicodeDecodeError")
                 ELSE IF AssertFails(Len(d.chars) = 1)
                      THEN ReadOneResult(eof_object, at2, "AssertionError")
                      ELSE ReadOneResult(W_Character(d.chars[1]), at2, "")

\* do_peek(w_port, as_bytes, skip), lines 275-283: with a skip the port is
\* moved forward, peeked at and moved back; an exception leaves it where
\* do_read_one left it.
Peek(bytes, at, as_bytes, skip) ==
    IF skip = 0 THEN ReadOne(bytes, at, as_bytes, TRUE)
    ELSE LET r == ReadOne(bytes, at + skip, as_bytes, TRUE)
         IN  IF r.exc = "" THEN [r EXCEPT !.at = at] ELSE r

CallRecord(op, skip, r) ==
    [op |-> op, skip |-> skip, res |-> r.res, exc |-> r.exc,
     before |-> ppos, after |-> r.at]

\* The port is usable: no call on it has raised.
PortUsable == IF hist = <<>> THEN TRUE ELSE hist[Len(hist)].exc = ""

Called(op, skip, r) ==
    /\ ppos' = r.at
    /\ hist' = IF hist = <<>> THEN <<CallRecord(op, skip, r)>>
               ELSE <<hist[Len(hist)], CallRecord(op, skip, r)>>
    /\ UNCHANGED <<content, translated, readerVars, portVars, fmtVars, writeVars>>

\* read-char, line 267
read_char ==
    /\ PortUsable
    /\ Called("read-char", 0, ReadOne(content, ppos, FALSE, FALSE))

\* read-byte, line 271
read_byte ==
    /\ PortUsable
    /\ Called("read-byte", 0, ReadOne(content, ppos, TRUE, FALSE))

\* peek-char, line 289
peek_char ==
    /\ PortUsable
    /\ \E skip \in 0..MaxSkip :
         Called("peek-char", skip, Peek(content, ppos, FALSE, skip))

\* peek-byte, line 295
peek_byte ==
    /\ PortUsable
    /\ \E skip \in 0..MaxSkip :
         Called("peek-byte", skip, Peek(content, ppos, TRUE, skip))

\* The UTF-8 encodings of "A", e-acute and the euro sign.
Utf8Chars == {<<65>>, <<195, 169>>, <<226, 130, 172>>}

RECURSIVE Concat(_)
Concat(ss) == IF ss = <<>> THEN <<>> ELSE Head(ss) \o Concat(Tail(ss))

Contents == {Concat(cs) : cs \in UNION {[1..n -> Utf8Chars] : n \in 0..MaxChars}}

InitPeek ==
    /\ PortsAtLoad
    /\ ReaderIdle
    /\ FormatIdle
    /\ WriteIdle
    /\ translated \in BOOLEAN
    /\ content \in Contents
    /\ ppos = 0
    /\ hist = <<>>

NextPeek ==
    \/ read_char
    \/ read_byte
    \/ peek_char
    \/ peek_byte

SpecPeek == InitPeek /\ [][NextPeek]_vars

LastCalled == hist[Len(hist)]
PrevCalled == hist[1]
IsPeek(c) == c.op \in {"peek-char", "peek-byte"} /\ c.skip = 0
ReadOf(op) == IF op = "peek-char" THEN "read-char" ELSE "read-byte"

\* The bytes of the character, or the one byte, at position at.
UnitAt(op, at) ==
    IF at >= Len(content) THEN 0
    ELSE IF op = "read-byte" THEN 1
    ELSE utf8_code_length(content[at + 1])

\* C8: a peek with skip 0 returns a value and leaves the position where it
\* was; a second peek of the same kind right after it returns the same
\* value; a read of the same kind right after it returns the same value and
\* advances the position by one character (one byte).
C8_PeekIdempotent ==
    /\ (hist # <<>> /\ IsPeek(LastCalled)) =>
          /\ LastCalled.exc = ""
          /\ LastCalled.after = LastCalled.before
    /\ (Len(hist) = 2 /\ IsPeek(PrevCalled)) =>
          /\ (IsPeek(LastCalled) /\ LastCalled.op = PrevCalled.op) =>
                LastCalled.res = PrevCalled.res
          /\ LastCalled.op = ReadOf(PrevCalled.op) =>
                /\ LastCalled.exc = ""
                /\ LastCalled.res = PrevCalled.res
                /\ LastCalled.after = LastCalled.before + UnitAt(LastCalled.op, LastCalled.before)

-----------------------------------------------------------------------------
(* format, fprintf and printf                                              *)

ValueDirectives == {"a", "A", "e", "E", "s", "S", "v", "V"}
NewlineDirectives == {"n", "%"}

\* A dictionary in which only "~n" stands for a newline.
format_dict_percent_value(d) ==
    IF d = "n"
    THEN [none |-> FALSE, text |-> <<"\n">>]
    ELSE [none |-> TRUE, text |-> <<>>]

\* format_dict[key] for the key "~" followed by d: the text it stands for,
\* or none where the dictionary holds None.
format_dict(d) ==
    IF d \in NewlineDirectives
    THEN [none |-> FALSE, text |-> <<"\n">>]
    ELSE [none |-> TRUE, text |-> <<>>]

\* format_regex matches at offset m of text: one of the keys stands there.
MatchesAt(text, m) ==
    /\ m + 2 <= Len(text)
    /\ text[m + 1] = "~"
    /\ text[m + 2] \in ValueDirectives \cup NewlineDirectives

\* The start of the next match finditer yields when scanning from offset
\* from, or -1 when there is none.
NextMatch(text, from) ==
    LET ms == {m \in from..Len(text) : MatchesAt(text, m)}
    IN  IF ms = {} THEN -1 ELSE CHOOSE m \in ms : \A n \in ms : m <= n

\* result.append_slice(text, start, end)
append_slice(text, start, end) == SubSeq(text, start + 1, end)

\* w_value.tostring()
tostring(w_value) == w_value.v

FormatReturned == [st |-> "returned", exc |-> "", msg |-> ""]
FormatRaised(exc, msg) == [st |-> "raised", exc |-> exc, msg |-> msg]

\* What a read past the end of the list v can put into the result in a
\* build that does not check the index.
Garbage == {<<>>, <<"?">>}

FormatActive(ops) == fop \in ops /\ fst.st = "running"

\* One iteration of the loop of format, lines 475-485.
format ==
    /\ FormatActive({"format", "fprintf"})
    /\ NextMatch(form, fpos) >= 0
    /\ LET match_start == NextMatch(form, fpos)
           copied == result \o append_slice(form, fpos, match_start)
           val == format_dict(form[match_start + 2])
       IN  IF ~val.none
           THEN /\ result' = copied \o val.text
                /\ fpos' = match_start + 2
                /\ UNCHANGED <<vindex, fst>>
           ELSE IF vindex < Len(args)
           THEN /\ result' = copied \o tostring(args[vindex + 1])
                /\ fpos' = match_start + 2
                /\ vindex' = vindex + 1
                /\ UNCHANGED fst
           ELSE IF ~translated
           THEN \* v[vindex] raises IndexError
                /\ result' = copied
                /\ fst' = FormatRaised("IndexError", "list index out of range")
                /\ UNCHANGED <<fpos, vindex>>
           ELSE \* v[vindex] reads past the end of the list
                \/ /\ result' = copied
                   /\ fst' = FormatRaised("Crash", "")
                   /\ UNCHANGED <<fpos, vindex>>
                \/ /\ \E g \in Garbage : result' = copied \o g
                   /\ fpos' = match_start + 2
                   /\ vindex' = vindex + 1
                   /\ UNCHANGED fst
    /\ UNCHANGED <<fop, form, args, out, translated, readerVars, portVars, peekVars, writeVars>>

\* The end of format, lines 486-487, called from do_format, line 527: the
\* built string is the result.
do_format ==
    /\ FormatActive({"format"})
    /\ NextMatch(form, fpos) < 0
    /\ result' = result \o append_slice(form, fpos, Len(form))
    /\ fpos' = Len(form)
    /\ fst' = FormatReturned
    /\ UNCHANGED <<fop, form, args, vindex, out, translated, readerVars, portVars, peekVars, writeVars>>

\* The end of format, lines 486-487, called from do_fprintf, lines 534-535:
\* the built string is written to the port.
do_fprintf ==
    /\ FormatActive({"fprintf"})
    /\ NextMatch(form, fpos) < 0
    /\ result' = result \o append_slice(form, fpos, Len(form))
    /\ out' = out \o result'
    /\ fpos' = Len(form)
    /\ fst' = FormatReturned
    /\ UNCHANGED <<fop, form, args, vindex, translated, readerVars, portVars, peekVars, writeVars>>

\* os.write(1, text), and on to offset i
Write1(text, i) ==
    /\ out' = out \o text
    /\ fpos' = i
    /\ UNCHANGED fst

PrintfRaise(msg) ==
    /\ fst' = FormatRaised("SchemeException", msg)
    /\ UNCHANGED <<out, fpos, vindex>>

\* One iteration of the loop of printf, lines 501-520, and its end.
printf ==
    /\ FormatActive({"printf"})
    /\ IF fpos >= Len(form)
       THEN /\ fst' = FormatReturned
            /\ UNCHANGED <<out, fpos, vindex>>
       ELSE IF form[fpos + 1] # "~"
       THEN Write1(<<form[fpos + 1]>>, fpos + 1) /\ UNCHANGED vindex
       ELSE IF fpos + 1 = Len(form)
       THEN PrintfRaise("bad format string")
       ELSE IF form[fpos + 2] \in ValueDirectives
       THEN IF vindex >= Len(args)
            THEN PrintfRaise("not enough arguments for format string")
            ELSE /\ Write1(tostring(args[vindex + 1]), fpos + 2)
                 /\ vindex' = vindex + 1
       ELSE IF form[fpos + 2] = "n"
       THEN Write1(<<"\n">>, fpos + 2) /\ UNCHANGED vindex
       ELSE PrintfRaise("unexpected format character")
    /\ UNCHANGED <<fop, form, args, result, translated, readerVars, portVars, peekVars, writeVars>>

FmtChars == {"~", "a", "n", "%", "x"}
Templates == UNION {[1..n -> FmtChars] : n \in 0..MaxTemplate}
FmtValues == {W_Symbol(<<"x">>), W_Symbol(<<"~", "n">>)}
ValueLists == UNION {[1..n -> FmtValues] : n \in 0..MaxVals}

InitFormat ==
    /\ WriteIdle
    /\ PortsAtLoad
    /\ ReaderIdle
    /\ PeekIdle
    /\ translated \in BOOLEAN
    /\ fop \in {"format", "fprintf", "printf"}
    /\ form \in Templates
    /\ args \in ValueLists
    /\ fpos = 0
    /\ vindex = 0
    /\ result = <<>>
    /\ out = <<>>
    /\ fst = FormatRunning

NextFormat ==
    \/ format
    \/ do_format
    \/ do_fprintf
    \/ printf

SpecFormat == InitFormat /\ [][NextFormat]_vars

IsDirective(text, i) ==
    /\ i + 1 <= Len(text)
    /\ text[i] = "~"
    /\ text[i + 1] \in ValueDirectives \cup NewlineDirectives

\* The template from its i-th character on, read character by character,
\* with the values from the k-th on.
RECURSIVE Render(_, _, _, _)
Render(text, i, vals, k) ==
    IF i > Len(text) THEN <<>>
    ELSE IF ~IsDirective(text, i) THEN <<text[i]>> \o Render(text, i + 1, vals, k)
    ELSE IF text[i + 1] \in NewlineDirectives
         THEN <<"\n">> \o Render(text, i + 2, vals, k)
         ELSE vals[k].v \o Render(text, i + 2, vals, k + 1)

\* The number of value-consuming sequences in the template.
RECURSIVE Consumes(_, _)
Consumes(text, i) ==
    IF i > Len(text) THEN 0
    ELSE IF ~IsDirective(text, i) THEN Consumes(text, i + 1)
    ELSE (IF text[i + 1] \in ValueDirectives THEN 1 ELSE 0) + Consumes(text, i + 2)

EnoughValues == Consumes(form, 1) <= Len(args)
FormatEnded == fop \in {"format", "fprintf"} /\ fst.st # "running"

\* C9: format with enough values returns the template with the text
\* outside the control sequences copied, each ~n or ~% replaced by one
\* newline, and the k-th value-consuming sequence replaced by the text of
\* the k-th value; fprintf writes that same string.
C9_FormatRendersTemplate ==
    (FormatEnded /\ EnoughValues) =>
        /\ fst.st = "returned"
        /\ result = Render(form, 1, args, 1)
        /\ vindex = Consumes(form, 1)
        /\ fop = "fprintf" => out = result

C9_Witness ==
    /\ fop = "format"
    /\ fst.st = "returned"
    /\ form = <<"~", "a", "x", "~", "a">>
    /\ args = <<W_Symbol(<<"x">>), W_Symbol(<<"~", "n">>)>>
    /\ result = <<"x", "x", "~", "n">>

\* C10: format and fprintf on a template with more value-consuming
\* sequences than values end with a SchemeException that carries a message,
\* and in no other way.
C10_TooFewValuesSchemeException ==
    (FormatEnded /\ ~EnoughValues) =>
        /\ fst.st = "raised"
        /\ fst.exc = "SchemeException"
        /\ fst.msg # ""

-----------------------------------------------------------------------------
(* write-bytes / write-bytes-avail on one output port                      *)

\* w_end is None
NoEnd == -1

\* value[start:stop] for 0 <= start and 0 <= stop
Slice(value, start, stop) ==
    SubSeq(value, start + 1, IF stop < Len(value) THEN stop ELSE Len(value))

\* to_write, lines 709-715
ToWrite(value, start, stop) ==
    IF start = 0 /\ stop = Len(value) THEN value
    ELSE Slice(value, start, stop - 1)

WriteCall(n, value, start, stop, wrote, flushed, count, exc) ==
    [op |-> "write-bytes", n |-> n, bstr |-> value, start |-> start, stop |-> stop,
     wrote |-> wrote, flushed |-> flushed, ret |-> count, exc |-> exc]

ByteStrings == UNION {[1..n -> {97, 98}] : n \in 0..MaxBytes}

\* write_bytes_avail, lines 695-719, with a port given.
write_bytes_avail ==
    /\ wcall.exc = ""
    /\ wcall.n < MaxWrites
    /\ \E value \in ByteStrings :
       \E start \in 0..Len(value) :
       \E w_end \in {NoEnd} \cup start..Len(value) :
         LET stop == IF w_end = NoEnd THEN Len(value) ELSE w_end
             slice_stop == stop - 1
             whole == start = 0 /\ stop = Len(value)
             n == wcall.n + 1
         IN  IF start = stop
             THEN /\ wport' = [wport EXCEPT !.flushes = @ + 1]
                  /\ wcall' = WriteCall(n, value, start, stop, <<>>, TRUE, 0, "")
             ELSE IF ~whole /\ (\/ AssertFails(start >= 0 /\ slice_stop < Len(value))
                                \/ AssertFails(slice_stop >= 0))
             THEN /\ wcall' = WriteCall(n, value, start, stop, <<>>, FALSE, 0,
                                        "AssertionError")
                  /\ UNCHANGED wport
             ELSE /\ wport' = [wport EXCEPT !.bytes = @ \o ToWrite(value, start, stop)]
                  /\ wcall' = WriteCall(n, value, start, stop,
                                        ToWrite(value, start, stop), FALSE,
                                        stop - start, "")
    /\ UNCHANGED <<translated, readerVars, portVars, peekVars, fmtVars>>

InitWrite ==
    /\ WriteIdle
    /\ PortsAtLoad
    /\ ReaderIdle
    /\ PeekIdle
    /\ FormatIdle
    /\ translated \in BOOLEAN

NextWrite == write_bytes_avail

SpecWrite == InitWrite /\ [][NextWrite]_vars

\* C13: write-bytes with 0 <= start <= stop <= len(b) writes the bytes
\* b[start], ..., b[stop - 1] in order and returns stop - start, the number
\* of bytes it wrote; with start = stop it writes nothing, flushes and
\* returns 0.
C13_WritesSliceAndCount ==
    wcall.op # "none" =>
        /\ wcall.exc = ""
        /\ wcall.wrote = SubSeq(wcall.bstr, wcall.start + 1, wcall.stop)
        /\ wcall.ret = wcall.stop - wcall.start
        /\ Len(wcall.wrote) = wcall.ret
        /\ wcall.start = wcall.stop => (wcall.wrote = <<>> /\ wcall.flushed /\ wcall.ret = 0)

-----------------------------------------------------------------------------
(* Successive reads on one stream that holds a sequence of datums          *)

\* read called again on the port after it returned a datum: read_stream
\* (line 147) starts anew where the last read left the stream.
read_stream ==
    /\ pc = "done"
    /\ ret.st = "value"
    /\ Len(reads) < MaxReads
    /\ reads' = Append(reads, [val |-> ret.val, stop |-> pos])
    /\ pc' = "token"
    /\ stack' = <<StreamFrame>>
    /\ ret' = Running
    /\ events' = <<>>
    /\ lastTok' = NoToken
    /\ sofar' = <<>>
    /\ UNCHANGED <<translated, alphabet, stream, pos, atEof, datums, portVars, peekVars,
                   fmtVars, writeVars>>

\* A datum as written and the value it denotes.
Datum(text, val) == [text |-> text, val |-> val]

DatumTable ==
    {Datum(<<"a">>, W_Symbol(<<"a">>)),
     Datum(<<"1", "2">>, W_Fixnum(IntValue(FALSE, <<"1", "2">>))),
     Datum(<<"#", "t">>, w_true),
     Datum(<<"\"", "s", "\\", "n", "\"">>, W_String(<<"s", "\n">>)),
     Datum(<<"(", "a", " ", "b", ")">>,
           ListOf(<<W_Symbol(<<"a">>), W_Symbol(<<"b">>)>>, w_null)),
     Datum(<<",", "a">>, ListOf(<<unquote_symbol, W_Symbol(<<"a">>)>>, w_null)),
     Datum(<<",", "@", "a">>,
           ListOf(<<unquote_splicing_symbol, W_Symbol(<<"a">>)>>, w_null))}

\* What stands before a datum: a blank, a newline, a comment or nothing.
Separators == {<<" ">>, <<"\n">>, <<";", "x", "\n">>, <<>>}

\* Two datums written one right after the other are told apart by a delimiter.
Delimited(d1, d2) == ~idchar(d1.text[Len(d1.text)]) \/ ~idchar(d2.text[1])

RECURSIVE StreamOf(_, _)
StreamOf(ds, seps) ==
    IF ds = <<>> THEN <<>>
    ELSE Head(seps) \o Head(ds).text \o StreamOf(Tail(ds), Tail(seps))

InitSeq ==
    /\ PortsAtLoad
    /\ PeekIdle
    /\ FormatIdle
    /\ WriteIdle
    /\ translated \in BOOLEAN
    /\ \E n \in 1..MaxReads :
       \E ds \in [1..n -> DatumTable] :
       \E seps \in [1..n -> Separators] :
         /\ \A k \in 2..n : seps[k] = <<>> => Delimited(ds[k - 1], ds[k])
         /\ stream = StreamOf(ds, seps)
         /\ datums = [k \in 1..n |->
                        [text |-> ds[k].text, val |-> ds[k].val,
                         stop |-> Len(StreamOf(SubSeq(ds, 1, k), SubSeq(seps, 1, k)))]]
    /\ reads = <<>>
    /\ alphabet = {}
    /\ pos = 0
    /\ atEof = TRUE
    /\ pc = "token"
    /\ sofar = <<>>
    /\ stack = <<StreamFrame>>
    /\ ret = Running
    /\ events = <<>>
    /\ lastTok = NoToken

NextSeq ==
    \/ Next
    \/ read_stream

SpecSeq == InitSeq /\ [][NextSeq]_vars

\* C14: on a stream that holds the datums d1 ... dn, separated by blanks,
\* comments or delimiters, the k-th read returns dk and leaves the stream
\* right after the last character of dk, and no read fails while a datum is
\* left.
C14_ReadConsumesOneDatum ==
    /\ \A k \in 1..Len(reads) :
          /\ k <= Len(datums)
          /\ reads[k].val = datums[k].val
          /\ reads[k].stop = datums[k].stop
    /\ ret.st = "value" =>
          /\ Len(reads) < Len(datums)
          /\ ret.val = datums[Len(reads) + 1].val
          /\ pos = datums[Len(reads) + 1].stop
    /\ ret.st = "error" => Len(reads) >= Len(datums)

\* C14 witness: the stream (a b),a was read as (a b), the closer right after
\* the atom b ending the list, and then as (unquote a).
C14_Witness ==
    /\ stream = <<"(", "a", " ", "b", ")", ",", "a">>
    /\ Len(reads) = 1
    /\ reads[1].val = ListOf(<<W_Symbol(<<"a">>), W_Symbol(<<"b">>)>>, w_null)
    /\ reads[1].stop = 5
    /\ ret.st = "value"
    /\ ret.val = ListOf(<<unquote_symbol, W_Symbol(<<"a">>)>>, w_null)
    /\ pos = 7

=============================================================================
